---- MODULE Spec2Model ----
(***************************************************************************)
(* Recurrence-relation solver (Daa cpp.py).                                *)
(*                                                                         *)
(* A Python str is a sequence of one-character strings.  Symbols outside   *)
(* ASCII are spelled by name: "Theta", "Omega" and "ne" (not equal) each   *)
(* stand for one character.  A Python number is a record [n, d, t]: the    *)
(* rational n/d in lowest terms, t = "int" or "float".                      *)
(***************************************************************************)
EXTENDS Integers, Sequences, FiniteSets, TLC

VARIABLES
    solver,     \* the RecurrenceSolver object: type, a, b, fn, diff_sizes, b_prime, notation
    relation,   \* the RecurrenceRelation object last constructed, or NoRelation
    out,        \* the last call on the relation and what it returned
    first       \* the first string solve returned for the relation, with its notation

vars == <<solver, relation, out, first>>

(***************************************************************************)
(* Bounds.                                                                 *)
(***************************************************************************)
\* longest f(n) description of the exhaustive enumeration
MaxLen == 3

(***************************************************************************)
(* Numbers.                                                                *)
(***************************************************************************)
Abs(x) == IF x < 0 THEN -x ELSE x

RECURSIVE GCD(_, _)
GCD(x, y) == IF y = 0 THEN x ELSE GCD(y, x % y)

Num(n, d, t) ==
    LET g == GCD(Abs(n), d)
    IN  [n |-> n \div g, d |-> d \div g, t |-> t]

PyInt(k) == Num(k, 1, "int")
PyFloat(n, d) == Num(n, d, "float")

\* float(x) of a number
ToFloat(x) == [x EXCEPT !.t = "float"]

REq(x, y) == x.n * y.d = y.n * x.d
RLess(x, y) == x.n * y.d < y.n * x.d
RMax(x, y) == IF RLess(x, y) THEN y ELSE x
RAdd(x, y) == PyFloat(x.n * y.d + y.n * x.d, x.d * y.d)
RInv(x) == IF x.n < 0 THEN PyFloat(-x.d, -x.n) ELSE PyFloat(x.d, x.n)

\* the tolerance 0.0001 of every comparison "abs(x - y) < 0.0001", as 1/TolDen
TolDen == 10000

\* abs(x - y) < 0.0001
AbsDiffLtTol(x, y) ==
    Abs(x.n * y.d - y.n * x.d) <= ((x.d * y.d) - 1) \div TolDen

RECURSIVE IntPow(_, _)
IntPow(x, k) == IF k = 0 THEN 1 ELSE x * IntPow(x, k - 1)

\* x ** k, for the integral exponents k the model raises to
Pow(x, k) ==
    CASE k.d = 1 /\ k.n >= 0 -> PyFloat(IntPow(x.n, k.n), IntPow(x.d, k.n))
      [] k.d = 1 /\ k.n < 0 -> RInv(PyFloat(IntPow(x.n, -k.n), IntPow(x.d, -k.n)))

\* math.e
E == PyFloat(1359, 500)

\* math.log(x) in millionths, for the x > 0 the model takes logarithms of
LnMicro(x) ==
    CASE x = <<1, 1>> -> 0
      [] x = <<3, 2>> -> 405465
      [] x = <<12, 7>> -> 538997
      [] x = <<39999, 20000>> -> 693122
      [] x = <<2, 1>> -> 693147
      [] x = <<40001, 20000>> -> 693172
      [] x = <<12, 5>> -> 875469
      [] x = <<8, 3>> -> 980829
      [] x = <<3, 1>> -> 1098612
      [] x = <<24, 7>> -> 1232144
      [] x = <<4, 1>> -> 1386294
      [] x = <<8, 1>> -> 2079442

\* math.log(x) / math.log(y): exc names the exception Python raises, "none" when
\* it returns val.  math.log raises ValueError on x <= 0; the division raises
\* ZeroDivisionError on math.log(y) = 0.
LogRatio(x, y) ==
    IF x.n <= 0 \/ y.n <= 0 THEN [exc |-> "ValueError", val |-> PyFloat(0, 1)]
    ELSE IF LnMicro(<<y.n, y.d>>) = 0
    THEN [exc |-> "ZeroDivisionError", val |-> PyFloat(0, 1)]
    ELSE [exc |-> "none", val |-> PyFloat(LnMicro(<<x.n, x.d>>), LnMicro(<<y.n, y.d>>))]

(***************************************************************************)
(* Strings.                                                                *)
(***************************************************************************)
Digits == <<"0", "1", "2", "3", "4", "5", "6", "7", "8", "9">>
IsDigit(c) == \E i \in 1..10 : Digits[i] = c
DigitVal(c) == (CHOOSE i \in 1..10 : Digits[i] = c) - 1

SetMin(S) == CHOOSE x \in S : \A y \in S : x <= y

\* pat occurs in s at position i
MatchAt(s, pat, i) ==
    /\ i >= 1
    /\ i + Len(pat) - 1 <= Len(s)
    /\ SubSeq(s, i, i + Len(pat) - 1) = pat

\* s.find(pat, start): the first position >= start, counted from 1; 0 for Python's -1
Find(s, pat, start) ==
    LET hits == {i \in start..(Len(s) - Len(pat) + 1) : MatchAt(s, pat, i)}
    IN  IF hits = {} THEN 0 ELSE SetMin(hits)

\* pat in s
Contains(s, pat) == Find(s, pat, 1) # 0

\* s[i:] and s[:i] for a position i counted from 1
From(s, i) == SubSeq(s, i, Len(s))
Before(s, i) == SubSeq(s, 1, i - 1)

\* re.match(r"^\d+$", s)
AllDigits(s) == Len(s) > 0 /\ \A i \in 1..Len(s) : IsDigit(s[i])
DigitsOrEmpty(s) == \A i \in 1..Len(s) : IsDigit(s[i])

RECURSIVE DigitsVal(_)
DigitsVal(s) ==
    IF s = <<>> THEN 0
    ELSE 10 * DigitsVal(SubSeq(s, 1, Len(s) - 1)) + DigitVal(s[Len(s)])

RECURSIVE Strip(_)
Strip(s) ==
    IF s = <<>> THEN s
    ELSE IF s[1] = " " THEN Strip(Tail(s))
    ELSE IF s[Len(s)] = " " THEN Strip(SubSeq(s, 1, Len(s) - 1))
    ELSE s

Unsigned(s) == IF s # <<>> /\ s[1] \in {"+", "-"} THEN Tail(s) ELSE s

\* s cut at the first occurrence of the character c
SplitAt(s, c) ==
    LET pos == Find(s, <<c>>, 1)
    IN  IF pos = 0 THEN [found |-> FALSE, head |-> s, tail |-> <<>>]
        ELSE [found |-> TRUE, head |-> Before(s, pos), tail |-> From(s, pos + 1)]

\* the float with integer digits ip, fraction digits fp and decimal exponent ev
FloatValue(neg, ip, fp, eneg, ev) ==
    IF eneg
    THEN PyFloat(DigitsVal(ip \o fp) * (IF neg THEN -1 ELSE 1),
                 IntPow(10, Len(fp)) * IntPow(10, ev))
    ELSE PyFloat(DigitsVal(ip \o fp) * (IF neg THEN -1 ELSE 1) * IntPow(10, ev),
                 IntPow(10, Len(fp)))

\* mantissa m cut at the point, exponent digits e of sign eneg when hasExp
ParseDigits(neg, m, hasExp, e, eneg) ==
    IF /\ DigitsOrEmpty(m.head) /\ DigitsOrEmpty(m.tail)
       /\ Len(m.head) + Len(m.tail) > 0
       /\ (hasExp => AllDigits(e))
    THEN [ok |-> TRUE,
          val |-> FloatValue(neg, m.head, m.tail, eneg,
                             IF hasExp THEN DigitsVal(e) ELSE 0)]
    ELSE [ok |-> FALSE, val |-> PyFloat(0, 1)]

\* unsigned literal cut at the exponent mark
ParseParts(neg, me) ==
    ParseDigits(neg, SplitAt(me.head, "."), me.found, Unsigned(me.tail),
                me.tail # <<>> /\ me.tail[1] = "-")

ParseSigned(t) ==
    ParseParts(t # <<>> /\ t[1] = "-", SplitAt(Unsigned(t), "e"))

\* float(s): [ok |-> FALSE] where Python raises ValueError.  The literals are
\* [sign] digits [. digits] [e [sign] digits], blanks around them ignored; the
\* descriptions and equations of the model hold no character of "inf", "nan"
\* or "_" beside "n".
ParseFloat(s) == ParseSigned(Strip(s))

\* float(s), and default where it raises (try: ... except: ...)
FloatOr(s, default) ==
    IF ParseFloat(s).ok THEN ParseFloat(s).val ELSE default

RECURSIVE IntChars(_)
IntChars(k) ==
    IF k < 10 THEN <<Digits[k + 1]>>
    ELSE IntChars(k \div 10) \o <<Digits[(k % 10) + 1]>>

\* f"{x:.2f}": x rounded to hundredths (ties to even), two decimals
Fmt2(x) ==
    LET q == 100 * Abs(x.n)
        lo == q \div x.d
        r == q % x.d
        h == IF 2 * r > x.d \/ (2 * r = x.d /\ lo % 2 = 1) THEN lo + 1 ELSE lo
    IN  (IF x.n < 0 THEN <<"-">> ELSE <<>>)
        \o IntChars(h \div 100) \o <<".">>
        \o <<Digits[((h \div 10) % 10) + 1], Digits[(h % 10) + 1]>>

RECURSIVE FracChars(_, _, _)
FracChars(r, d, fuel) ==
    IF r = 0 \/ fuel = 0 THEN <<>>
    ELSE <<Digits[((10 * r) \div d) + 1]>> \o FracChars((10 * r) % d, d, fuel - 1)

\* f"{x}": str of an int, repr of a float
PyStr(x) ==
    LET sign == IF x.n < 0 THEN <<"-">> ELSE <<>>
        whole == IntChars(Abs(x.n) \div x.d)
        r == Abs(x.n) % x.d
    IN  IF x.t = "int" THEN sign \o whole
        ELSE sign \o whole \o <<".">>
             \o (IF r = 0 THEN <<"0">> ELSE FracChars(r, x.d, 17))

(***************************************************************************)
(* RecurrenceRelation.                                                     *)
(***************************************************************************)
\* the log power parsed from fn after the caret at power_pos (0: no caret)
LogPowerAt(fn, power_pos) ==
    IF power_pos = 0 THEN PyFloat(1, 1)
    ELSE FloatOr(SplitAt(From(fn, power_pos + 1), "(").head, PyFloat(1, 1))

\* the base of the exponential
ExpBase(fn) ==
    IF Contains(fn, <<"2", "^">>) THEN PyFloat(2, 1)
    ELSE IF Contains(fn, <<"e", "^">>) THEN E
    ELSE IF Find(fn, <<"^">>, 1) > 1
    THEN FloatOr(Before(fn, Find(fn, <<"^">>, 1)), PyFloat(2, 1))
    ELSE PyFloat(2, 1)

IsConstantLiteral(fn) ==
    fn \in {<<"1">>, <<"c">>, <<"0">>} \/ AllDigits(fn)

\* determine_function_type without its final else: no pattern matched leaves -1
determine_function_type_NoDefault(fn) ==
    IF IsConstantLiteral(fn)
    THEN [fn_type |-> 0, log_power |-> PyFloat(1, 1), exp_base |-> PyFloat(2, 1)]
    ELSE IF Contains(fn, <<"n">>) /\ Contains(fn, <<"l", "o", "g">>)
    THEN [fn_type |-> 2,
          log_power |-> LogPowerAt(fn, Find(fn, <<"^">>, Find(fn, <<"l", "o", "g">>, 1))),
          exp_base |-> PyFloat(2, 1)]
    ELSE IF Contains(fn, <<"l", "o", "g">>)
    THEN [fn_type |-> 1,
          log_power |-> IF Find(fn, <<"^">>, 1) > 1
                        THEN LogPowerAt(fn, Find(fn, <<"^">>, 1))
                        ELSE PyFloat(1, 1),
          exp_base |-> PyFloat(2, 1)]
    ELSE IF Contains(fn, <<"n", "^">>)
            \/ (Contains(fn, <<"n">>) /\ ~Contains(fn, <<"^">>))
    THEN [fn_type |-> 2, log_power |-> PyFloat(1, 1), exp_base |-> PyFloat(2, 1)]
    ELSE IF Contains(fn, <<"^", "n">>) \/ Contains(fn, <<"2", "^">>)
            \/ Contains(fn, <<"e", "^">>)
    THEN [fn_type |-> 3, log_power |-> PyFloat(1, 1), exp_base |-> ExpBase(fn)]
    ELSE [fn_type |-> -1, log_power |-> PyFloat(1, 1), exp_base |-> PyFloat(2, 1)]

determine_function_type(fn) ==
    IF IsConstantLiteral(fn)
    THEN [fn_type |-> 0, log_power |-> PyFloat(1, 1), exp_base |-> PyFloat(2, 1)]
    ELSE IF Contains(fn, <<"n">>) /\ Contains(fn, <<"l", "o", "g">>)
    THEN [fn_type |-> 2,
          log_power |-> LogPowerAt(fn, Find(fn, <<"^">>, Find(fn, <<"l", "o", "g">>, 1))),
          exp_base |-> PyFloat(2, 1)]
    ELSE IF Contains(fn, <<"l", "o", "g">>)
    THEN [fn_type |-> 1,
          log_power |-> IF Find(fn, <<"^">>, 1) > 1
                        THEN LogPowerAt(fn, Find(fn, <<"^">>, 1))
                        ELSE PyFloat(1, 1),
          exp_base |-> PyFloat(2, 1)]
    ELSE IF Contains(fn, <<"n", "^">>)
            \/ (Contains(fn, <<"n">>) /\ ~Contains(fn, <<"^">>))
    THEN [fn_type |-> 2, log_power |-> PyFloat(1, 1), exp_base |-> PyFloat(2, 1)]
    ELSE IF Contains(fn, <<"^", "n">>) \/ Contains(fn, <<"2", "^">>)
            \/ Contains(fn, <<"e", "^">>)
    THEN [fn_type |-> 3, log_power |-> PyFloat(1, 1), exp_base |-> ExpBase(fn)]
    ELSE [fn_type |-> 0, log_power |-> PyFloat(1, 1), exp_base |-> PyFloat(2, 1)]

get_polynomial_exponent(rel) ==
    IF rel.fn_type # 2 THEN PyFloat(0, 1)
    ELSE IF Contains(rel.fn, <<"n">>) /\ Contains(rel.fn, <<"l", "o", "g">>)
    THEN PyFloat(1, 1)
    ELSE IF Find(rel.fn, <<"^">>, 1) # 0
    THEN FloatOr(From(rel.fn, Find(rel.fn, <<"^">>, 1) + 1), PyFloat(1, 1))
    ELSE IF Contains(rel.fn, <<"n">>) THEN PyFloat(1, 1)
    ELSE PyFloat(0, 1)

\* RecurrenceRelation.__init__, with the fields the two subclasses add
WithFunctionType(self, t) ==
    [self EXCEPT !.fn_type = t.fn_type, !.log_power = t.log_power,
                 !.exp_base = t.exp_base]

RecurrenceRelation(kind, a_val, b_val, fn_val, diff_sizes, b_prime_val) ==
    WithFunctionType(
        [kind |-> kind, a |-> a_val, b |-> b_val, fn |-> fn_val,
         fn_type |-> -1, log_power |-> PyFloat(1, 1), exp_base |-> PyFloat(2, 1),
         diff_sizes |-> diff_sizes, b_prime |-> b_prime_val],
        determine_function_type(fn_val))

NoRelation ==
    [kind |-> "none", a |-> PyInt(0), b |-> PyInt(0), fn |-> <<>>,
     fn_type |-> -1, log_power |-> PyFloat(1, 1), exp_base |-> PyFloat(2, 1),
     diff_sizes |-> FALSE, b_prime |-> PyInt(0)]

(***************************************************************************)
(* What a method returns: the str (text), the return statement that made   *)
(* it (label: the method and case the source's comment gives that return), *)
(* or the exception raised (exc).                                          *)
(***************************************************************************)
Return(text, label) == [text |-> text, label |-> label, exc |-> "none"]
Raise(exc) == [text |-> <<>>, label |-> "", exc |-> exc]

StarLogPow == <<" ", "*", " ", "l", "o", "g", "^">>
StarLogLogN == <<" ", "*", " ", "l", "o", "g", " ", "l", "o", "g", " ", "n">>
StarLogN == <<" ", "*", " ", "l", "o", "g", " ", "n">>
NOver == <<"^", "(", "n", "/">>
CannotApply ==
    <<"C", "a", "n", "n", "o", "t", " ", "a", "p", "p", "l", "y", " ",
      "M", "u", "s", "t", "e", "r", " ", "T", "h", "e", "o", "r", "e", "m", " ",
      "w", "i", "t", "h", " ", "a", " ", "ne", " ", "1">>

(***************************************************************************)
(* DividingFunctionRecurrence.                                             *)
(***************************************************************************)
DividingFunctionRecurrence(a_val, b_val, fn_val, diff_sizes, b_prime_val) ==
    RecurrenceRelation("dividing", a_val, b_val, fn_val, diff_sizes, b_prime_val)

DividingEquation(rel) ==
    IF rel.diff_sizes
    THEN <<"T", "(", "n", ")", " ", "=", " ", "T", "(", "n", "/">> \o PyStr(rel.b)
         \o <<")", " ", "+", " ", "T", "(", "n", "/">> \o PyStr(rel.b_prime)
         \o <<")", " ", "+", " ">> \o rel.fn
    ELSE <<"T", "(", "n", ")", " ", "=", " ">> \o PyStr(rel.a)
         \o <<"T", "(", "n", "/">> \o PyStr(rel.b) \o <<")", " ", "+", " ">> \o rel.fn

\* get_method_name after its locals log_a_b and b_power_k are computed
MasterTheoremName(rel, log_a_b, b_power_k) ==
        IF log_a_b.exc # "none" THEN Raise(log_a_b.exc)
        ELSE IF AbsDiffLtTol(rel.a, b_power_k)
        THEN IF RLess(PyFloat(-1, 1), rel.log_power)
             THEN Return(<<>>, "Master Theorem (Case 2a)")
             ELSE IF AbsDiffLtTol(rel.log_power, PyFloat(-1, 1))
             THEN Return(<<>>, "Master Theorem (Case 2b)")
             ELSE Return(<<>>, "Master Theorem (Case 2c)")
        ELSE IF RLess(b_power_k, rel.a)
        THEN Return(<<>>, "Master Theorem (Case 1)")
        ELSE IF RLess(rel.a, b_power_k)
        THEN IF ~RLess(rel.log_power, PyFloat(0, 1))
             THEN Return(<<>>, "Master Theorem (Case 3a)")
             ELSE Return(<<>>, "Master Theorem (Case 3b)")
        ELSE IF rel.fn_type = 3
        THEN Return(<<>>, "Extended Master Theorem")
        ELSE Return(<<>>, "Advanced Master Theorem")

DividingMethodName(rel) ==
    IF rel.diff_sizes THEN Return(<<>>, "Approximation Method")
    ELSE MasterTheoremName(rel, LogRatio(rel.a, rel.b),
                           Pow(rel.b, get_polynomial_exponent(rel)))

\* apply_master_theorem after its locals log_a_b, k, p and b_power_k are computed
MasterTheoremCases(notation, a, log_a_b, k, p, b_power_k) ==
    LET head == <<notation, "(", "n", "^">>
    IN  IF log_a_b.exc # "none" THEN Raise(log_a_b.exc)
        ELSE IF RLess(b_power_k, a)
        THEN Return(head \o Fmt2(log_a_b.val) \o <<")">>, "Master Theorem (Case 1)")
        ELSE IF AbsDiffLtTol(a, b_power_k)
        THEN IF RLess(PyFloat(-1, 1), p)
             THEN Return(head \o Fmt2(log_a_b.val) \o StarLogPow
                         \o Fmt2(RAdd(p, PyFloat(1, 1))) \o <<"n", ")">>,
                         "Master Theorem (Case 2a)")
             ELSE IF AbsDiffLtTol(p, PyFloat(-1, 1))
             THEN Return(head \o Fmt2(log_a_b.val) \o StarLogLogN \o <<")">>,
                         "Master Theorem (Case 2b)")
             ELSE Return(head \o Fmt2(log_a_b.val) \o <<")">>,
                         "Master Theorem (Case 2c)")
        ELSE IF ~RLess(p, PyFloat(0, 1))
             THEN Return(head \o Fmt2(k) \o StarLogPow \o Fmt2(p) \o <<"n", ")">>,
                         "Master Theorem (Case 3a)")
             ELSE Return(head \o Fmt2(k) \o <<")">>, "Master Theorem (Case 3b)")

MasterTheoremLocals(rel, notation, k) ==
    MasterTheoremCases(notation, rel.a, LogRatio(rel.a, rel.b), k, rel.log_power,
                       Pow(rel.b, k))

\* apply_master_theorem with the textbook exponent of the logarithm: p one lower
apply_master_theorem_Textbook(rel, notation) ==
    MasterTheoremCases(notation, rel.a, LogRatio(rel.a, rel.b),
                       get_polynomial_exponent(rel),
                       RAdd(rel.log_power, PyFloat(-1, 1)),
                       Pow(rel.b, get_polynomial_exponent(rel)))

apply_master_theorem(rel, notation) ==
    MasterTheoremLocals(rel, notation, get_polynomial_exponent(rel))

apply_extended_master_theorem(rel, notation) ==
    LET log_a_b == LogRatio(rel.a, rel.b)
    IN  IF log_a_b.exc # "none" THEN Raise(log_a_b.exc)
        ELSE IF rel.fn_type = 3 /\ RLess(PyFloat(1, 1), rel.exp_base)
        THEN Return(<<notation, "(">> \o Fmt2(rel.exp_base) \o <<"^", "n", ")">>,
                    "Extended Master Theorem")
        ELSE IF rel.fn_type = 1
        THEN IF RLess(PyFloat(1, 1), rel.log_power)
             THEN Return(<<notation, "(", "n", "^">> \o Fmt2(log_a_b.val) \o StarLogPow
                         \o Fmt2(rel.log_power) \o <<" ", "n", ")">>,
                         "Extended Master Theorem")
             ELSE Return(<<notation, "(", "n", "^">> \o Fmt2(log_a_b.val)
                         \o StarLogLogN \o <<")">>,
                         "Extended Master Theorem")
        ELSE apply_master_theorem(rel, notation)

\* x / 2.0
RHalf(x) == PyFloat(x.n, 2 * x.d)

\* apply_approximation_method after its locals log_a_b and exp are computed
ApproximationCases(rel, notation, log_a_b, exp) ==
        LET head == <<notation, "(", "n", "^">>
            m == "Approximation Method"
        IN  IF log_a_b.exc # "none" THEN Raise(log_a_b.exc)
            ELSE IF rel.fn_type = 0
            THEN Return(head \o Fmt2(log_a_b.val) \o <<")">>, m)
            ELSE IF rel.fn_type = 2
            THEN IF RLess(exp, log_a_b.val)
                 THEN Return(head \o Fmt2(log_a_b.val) \o <<")">>, m)
                 ELSE IF AbsDiffLtTol(exp, log_a_b.val)
                 THEN Return(head \o Fmt2(log_a_b.val) \o StarLogN \o <<")">>, m)
                 ELSE Return(head \o Fmt2(exp) \o <<")">>, m)
            ELSE IF rel.fn_type = 1
            THEN IF RLess(PyFloat(1, 1), rel.log_power)
                 THEN Return(head \o Fmt2(log_a_b.val) \o StarLogPow
                             \o Fmt2(rel.log_power) \o <<" ", "n", ")">>, m)
                 ELSE Return(head \o Fmt2(log_a_b.val) \o StarLogN \o <<")">>, m)
            ELSE IF rel.fn_type = 3
            THEN Return(<<notation, "(">> \o Fmt2(rel.exp_base) \o <<"^", "n", ")">>, m)
            ELSE Return(head \o Fmt2(log_a_b.val) \o <<")">>, m)

\* apply_approximation_method after its local avg is computed
ApproximationLocals(rel, notation, avg) ==
    IF avg.n = 0 THEN Raise("ZeroDivisionError")
    ELSE ApproximationCases(rel, notation, LogRatio(PyFloat(2, 1), RInv(avg)),
                            get_polynomial_exponent(rel))

apply_approximation_method(rel, notation) ==
    IF rel.b.n = 0 \/ rel.b_prime.n = 0 THEN Raise("ZeroDivisionError")
    ELSE ApproximationLocals(rel, notation,
                             RHalf(RAdd(RInv(rel.b), RInv(rel.b_prime))))

DividingSolve(rel, notation) ==
    IF rel.diff_sizes THEN apply_approximation_method(rel, notation)
    ELSE IF rel.fn_type = 3 \/ Contains(rel.fn, <<"l", "o", "g", " ", "l", "o", "g">>)
    THEN apply_extended_master_theorem(rel, notation)
    ELSE apply_master_theorem(rel, notation)

(***************************************************************************)
(* DecreasingFunctionRecurrence.                                           *)
(***************************************************************************)
DecreasingFunctionRecurrence(a_val, b_val, fn_val) ==
    RecurrenceRelation("decreasing", a_val, b_val, fn_val, FALSE, PyInt(0))

DecreasingEquation(rel) ==
    <<"T", "(", "n", ")", " ", "=", " ">> \o PyStr(rel.a)
    \o <<"T", "(", "n", "-">> \o PyStr(rel.b) \o <<")", " ", "+", " ">> \o rel.fn

DecreasingMethodName(rel) ==
    IF REq(rel.a, PyInt(1)) THEN Return(<<>>, "Muster Theorem")
    ELSE Return(<<>>, "Substitution Method")

apply_muster_theorem(rel, notation) ==
    LET m == "Muster Theorem"
    IN  IF ~REq(rel.a, PyInt(1)) THEN Return(CannotApply, m)
        ELSE IF rel.fn_type = 0 THEN Return(<<notation, "(", "n", ")">>, m)
        ELSE IF rel.fn_type = 2
        THEN Return(<<notation, "(", "n", "^">>
                    \o Fmt2(RAdd(get_polynomial_exponent(rel), PyFloat(1, 1)))
                    \o <<")">>, m)
        ELSE IF rel.fn_type = 1
        THEN IF RLess(PyFloat(1, 1), rel.log_power)
             THEN Return(<<notation, "(", "n">> \o StarLogPow \o Fmt2(rel.log_power)
                         \o <<" ", "n", ")">>, m)
             ELSE Return(<<notation, "(", "n", " ", "l", "o", "g", " ", "n", ")">>, m)
        ELSE IF rel.fn_type = 3
        THEN Return(<<notation, "(", "n", " ", "*", " ">> \o Fmt2(rel.exp_base)
                    \o <<"^", "n", ")">>, m)
        ELSE Return(<<notation, "(", "n", " ", "*", " ">> \o rel.fn \o <<")">>, m)

apply_substitution_method(rel, notation) ==
    LET m == "Substitution Method"
        growth == Fmt2(rel.a) \o NOver \o Fmt2(rel.b) \o <<")", ")">>
    IN  IF RLess(rel.a, PyInt(1))
        THEN Return(<<notation, "(">> \o rel.fn \o <<")">>, m)
        ELSE IF REq(rel.a, PyInt(1)) THEN apply_muster_theorem(rel, notation)
        ELSE IF rel.fn_type = 0 THEN Return(<<notation, "(">> \o growth, m)
        ELSE IF rel.fn_type = 2
        THEN Return(<<notation, "(", "n", "^">> \o Fmt2(get_polynomial_exponent(rel))
                    \o <<" ", "*", " ">> \o growth, m)
        ELSE IF rel.fn_type = 1
        THEN IF RLess(PyFloat(1, 1), rel.log_power)
             THEN Return(<<notation, "(", "l", "o", "g", "^">> \o Fmt2(rel.log_power)
                         \o <<"(", "n", ")", " ", "*", " ">> \o growth, m)
             ELSE Return(<<notation, "(", "l", "o", "g", "(", "n", ")", " ", "*", " ">>
                         \o growth, m)
        ELSE IF rel.fn_type = 3
        THEN Return(<<notation, "(">> \o Fmt2(RMax(rel.a, Pow(rel.exp_base, rel.b)))
                    \o NOver \o Fmt2(rel.b) \o <<")", ")">>, m)
        ELSE Return(<<notation, "(">> \o growth, m)

\* solve calling apply_muster_theorem without passing its notation on
DecreasingSolve_DefaultNotation(rel, notation) ==
    IF REq(rel.a, PyInt(1)) THEN apply_muster_theorem(rel, "Theta")
    ELSE apply_substitution_method(rel, notation)

\* solve routing a <= 1, not only a == 1, to apply_muster_theorem
DecreasingSolve_AtMostOne(rel, notation) ==
    IF ~RLess(PyInt(1), rel.a) THEN apply_muster_theorem(rel, notation)
    ELSE apply_substitution_method(rel, notation)

DecreasingSolve(rel, notation) ==
    IF REq(rel.a, PyInt(1)) THEN apply_muster_theorem(rel, notation)
    ELSE apply_substitution_method(rel, notation)

(***************************************************************************)
(* Dispatch on the class of the relation.                                  *)
(***************************************************************************)
solve(rel, notation) ==
    IF rel.kind = "dividing" THEN DividingSolve(rel, notation)
    ELSE DecreasingSolve(rel, notation)

get_method_name(rel) ==
    IF rel.kind = "dividing" THEN DividingMethodName(rel)
    ELSE DecreasingMethodName(rel)

get_recurrence_equation(rel) ==
    IF rel.kind = "dividing" THEN DividingEquation(rel)
    ELSE DecreasingEquation(rel)

(***************************************************************************)
(* RecurrenceSolver.                                                       *)
(***************************************************************************)
UpperLetters ==
    <<"A", "B", "C", "D", "E", "F", "G", "H", "I", "J", "K", "L", "M",
      "N", "O", "P", "Q", "R", "S", "T", "U", "V", "W", "X", "Y", "Z">>
LowerLetters ==
    <<"a", "b", "c", "d", "e", "f", "g", "h", "i", "j", "k", "l", "m",
      "n", "o", "p", "q", "r", "s", "t", "u", "v", "w", "x", "y", "z">>

\* s.lower()
Lower(s) ==
    [i \in 1..Len(s) |->
        IF \E j \in 1..26 : UpperLetters[j] = s[i]
        THEN LowerLetters[CHOOSE j \in 1..26 : UpperLetters[j] = s[i]]
        ELSE s[i]]

IsSpace(c) == c \in {" ", "\t", "\n"}
NotSpace(c) == ~IsSpace(c)

\* re.sub(r'\s+', '', s)
RemoveWhitespace(s) == SelectSeq(s, NotSpace)

\* s.count(pat): occurrences that do not overlap, from position i on
RECURSIVE CountFrom(_, _, _)
CountFrom(s, pat, i) ==
    LET at == Find(s, pat, i)
    IN  IF at = 0 THEN 0 ELSE 1 + CountFrom(s, pat, at + Len(pat))

\* the part of s after the last occurrence of the character c (s.split(c)[-1])
AfterLast(s, c) ==
    LET hits == {i \in 1..Len(s) : s[i] = c}
    IN  IF hits = {} THEN s ELSE From(s, (CHOOSE i \in hits : \A j \in hits : j <= i) + 1)

\* the longest run of characters of s from position i on that are not c
RunNot(s, i, c) ==
    LET stop == Find(s, <<c>>, i)
    IN  IF stop = 0 THEN From(s, i) ELSE SubSeq(s, i, stop - 1)

RunDigits(s, i) ==
    LET stops == {j \in i..Len(s) : ~IsDigit(s[j])}
    IN  IF stops = {} THEN From(s, i) ELSE SubSeq(s, i, SetMin(stops) - 1)

\* re.findall(r't\(n/([^)]+)\)', s): the groups of the matches from position i on
RECURSIVE FindAllFactors(_, _)
FindAllFactors(s, i) ==
    IF i > Len(s) THEN <<>>
    ELSE IF MatchAt(s, <<"t", "(", "n", "/">>, i)
    THEN LET close == Find(s, <<")">>, i + 4)
         IN  IF close > i + 4
             THEN <<SubSeq(s, i + 4, close - 1)>> \o FindAllFactors(s, close + 1)
             ELSE FindAllFactors(s, i + 1)
    ELSE FindAllFactors(s, i + 1)

\* the match of  <head>([^)]+)\)\+([^+]+)  in s at position i, g1 the run of
\* characters other than ")" after the head: groups b and fn
MatchTailRun(s, head, i, g1) ==
    IF /\ MatchAt(s, head, i)
       /\ Len(g1) > 0
       /\ MatchAt(s, <<")", "+">>, i + Len(head) + Len(g1))
       /\ Len(RunNot(s, i + Len(head) + Len(g1) + 2, "+")) > 0
    THEN [ok |-> TRUE, b |-> g1,
          fn |-> RunNot(s, i + Len(head) + Len(g1) + 2, "+")]
    ELSE [ok |-> FALSE, b |-> <<>>, fn |-> <<>>]

MatchTail(s, head, i) == MatchTailRun(s, head, i, RunNot(s, i + Len(head), ")"))

\* the match of  t\(n\)=(\d+)<tail>  in s, a the run of digits after "="
MatchCoefficientRun(s, op, a) ==
    IF /\ MatchAt(s, <<"t", "(", "n", ")", "=">>, 1)
       /\ Len(a) > 0
       /\ MatchTail(s, <<"t", "(", "n", op>>, 6 + Len(a)).ok
    THEN [MatchTail(s, <<"t", "(", "n", op>>, 6 + Len(a)) EXCEPT !.ok = TRUE]
         @@ [a |-> a]
    ELSE [ok |-> FALSE, a |-> <<>>, b |-> <<>>, fn |-> <<>>]

\* re.match(r't\(n\)=(\d+)t\(n<op>([^)]+)\)\+([^+]+)', s), op "/" or "-"
MatchCoefficient(s, op) == MatchCoefficientRun(s, op, RunDigits(s, 6))

\* re.match(r't\(n\)=t\(n<op>([^)]+)\)\+([^+]+)', s), op "/" or "-"
MatchNoCoefficient(s, op) ==
    IF MatchAt(s, <<"t", "(", "n", ")", "=">>, 1)
    THEN MatchTail(s, <<"t", "(", "n", op>>, 6)
    ELSE [ok |-> FALSE, b |-> <<>>, fn |-> <<>>]

RecurrenceSolver ==
    [type |-> 0, a |-> PyInt(0), b |-> PyInt(0), fn |-> <<>>,
     diff_sizes |-> FALSE, b_prime |-> PyInt(0), notation |-> "Theta"]

\* What parse_equation leaves: self, and the exception a float() raised (the
\* assignments made before it stay).
Parsed(self, exc) == [self |-> self, exc |-> exc]

\* self.a = a_val; self.b = float(b_str); self.fn = fn_str
AssignTerm(self, a_val, b_str, fn_str) ==
    IF ParseFloat(b_str).ok
    THEN Parsed([self EXCEPT !.a = a_val, !.b = ParseFloat(b_str).val, !.fn = fn_str],
                "none")
    ELSE Parsed([self EXCEPT !.a = a_val], "ValueError")

\* the standard and the decreasing branch, m and m2 the matches of their two patterns
AssignOneTerm(self, m, m2) ==
    IF m.ok THEN AssignTerm(self, ParseFloat(m.a).val, m.b, m.fn)
    ELSE IF m2.ok THEN AssignTerm(self, PyInt(1), m2.b, m2.fn)
    ELSE Parsed(self, "none")

ParseOneTerm(self, low, op) ==
    AssignOneTerm(self, MatchCoefficient(low, op), MatchNoCoefficient(low, op))

\* the different-sizes branch after diff_sizes and fn are set, matches the factors found
AssignTwoTerms(self, matches) ==
    IF Len(matches) >= 2
    THEN IF ~ParseFloat(matches[1]).ok THEN Parsed(self, "ValueError")
         ELSE IF ~ParseFloat(matches[2]).ok
         THEN Parsed([self EXCEPT !.b = ParseFloat(matches[1]).val], "ValueError")
         ELSE Parsed([self EXCEPT !.b = ParseFloat(matches[1]).val,
                                  !.b_prime = ParseFloat(matches[2]).val,
                                  !.a = PyInt(2)], "none")
    ELSE Parsed([self EXCEPT !.a = PyInt(2)], "none")

ParseTwoTerms(self, low) ==
    AssignTwoTerms([self EXCEPT !.diff_sizes = TRUE,
                                !.fn = AfterLast(AfterLast(low, "+"), "-")],
                   FindAllFactors(low, 1))

\* parse_equation on the equation without blanks, in lower case
ParseLower(self, low) ==
    IF Contains(low, <<"t", "(", "n", "/">>)
    THEN IF CountFrom(low, <<"t", "(", "n", "/">>, 1) = 2
         THEN ParseTwoTerms([self EXCEPT !.type = 1], low)
         ELSE ParseOneTerm([self EXCEPT !.type = 1], low, "/")
    ELSE ParseOneTerm([self EXCEPT !.type = 2], low, "-")

parse_equation(self, equation) == ParseLower(self, Lower(RemoveWhitespace(equation)))

create_relation(self) ==
    IF self.type = 1
    THEN DividingFunctionRecurrence(self.a, self.b, self.fn, self.diff_sizes, self.b_prime)
    ELSE DecreasingFunctionRecurrence(self.a, self.b, self.fn)

(***************************************************************************)
(* Inputs.                                                                 *)
(***************************************************************************)
Notations == {"O", "Omega", "Theta"}

\* every string of at most MaxLen characters over these
Alphabet == {"n", "^", "2", "e", "l", "o", "g", "x"}
ShortStrings == UNION {[1..k -> Alphabet] : k \in 0..MaxLen}

\* f(n) descriptions, one or more for every branch of the classifier and the solvers
Descriptions ==
    {<<"1">>,
     <<"0">>,
     <<"1", "2">>,
     <<>>,
     <<"x">>,
     <<"n">>,
     <<"n", "^", "2">>,
     <<"n", "^", "3">>,
     <<"n", "^", "x">>,
     <<"l", "o", "g", "(", "n", ")">>,
     <<"l", "o", "g", "^", "2", "(", "n", ")">>,
     <<"n", "*", "l", "o", "g", "^", "2", "(", "n", ")">>,
     <<"n", "*", "l", "o", "g", "^", "-", "1", "(", "n", ")">>,
     <<"n", "*", "l", "o", "g", "^", "-", "2", "(", "n", ")">>,
     <<"l", "o", "g", "(", "m", ")">>,
     <<"l", "o", "g", "^", "2", "(", "m", ")">>,
     <<"l", "o", "g", " ", "l", "o", "g">>,
     <<"l", "o", "g", " ", "l", "o", "g", " ", "n">>,
     <<"2", "^", "n">>,
     <<"3", "^", "n">>,
     <<"e", "^", "n">>,
     <<"2", "^", "3">>,
     <<"0", ".", "5", "^", "n">>}
\* T(n)=2T(n/2)+n
EqStandard ==
    <<"T", "(", "n", ")", "=", "2", "T", "(", "n", "/", "2", ")", "+", "n">>
\* T(n) = T(n/2) + T(n/3) + n
EqDifferentSizes ==
    <<"T", "(", "n", ")", " ", "=", " ", "T", "(", "n", "/", "2", ")", " ", "+", " ", "T", "(", "n", "/", "3", ")", " ", "+", " ", "n">>
\* T(n)=T(n/2)+1
EqNoCoefficient ==
    <<"T", "(", "n", ")", "=", "T", "(", "n", "/", "2", ")", "+", "1">>
\* T(n)=T(n-1)+n
EqDecreasingNoCoefficient ==
    <<"T", "(", "n", ")", "=", "T", "(", "n", "-", "1", ")", "+", "n">>
\* T(n)=2T(n-2)+2^n
EqDecreasingExp ==
    <<"T", "(", "n", ")", "=", "2", "T", "(", "n", "-", "2", ")", "+", "2", "^", "n">>
\* T(n)=2T(n/x)+n
EqBadFactor ==
    <<"T", "(", "n", ")", "=", "2", "T", "(", "n", "/", "x", ")", "+", "n">>
\* n^2
EqNoRecurrence ==
    <<"n", "^", "2">>
Equations ==
    {EqStandard, EqDifferentSizes, EqNoCoefficient, EqDecreasingNoCoefficient,
     EqDecreasingExp, EqBadFactor, EqNoRecurrence}

\* dividing recurrences T(n) = aT(n/b) + f(n) with a >= 1 and b > 1; two values
\* of a lie within the tolerance of 2, one on each side
DividingA ==
    {PyInt(1), PyInt(2), PyFloat(3, 1), PyInt(4), PyInt(8),
     PyFloat(39999, 20000), PyFloat(40001, 20000)}
DividingB == {PyInt(2), PyFloat(3, 1), PyFloat(3, 2)}
DividingBPrime == {PyInt(2), PyInt(3)}

\* decreasing recurrences T(n) = aT(n-b) + f(n), a < 1 included
DecreasingA == {PyInt(0), PyFloat(1, 2), PyInt(1), PyFloat(1, 1), PyInt(2), PyFloat(3, 1)}
DecreasingB == {PyInt(1), PyInt(2)}

(***************************************************************************)
(* State.                                                                  *)
(***************************************************************************)
\* out: op names the call; equation, name and text hold what get_recurrence_equation,
\* get_method_name and solve returned; label is the return statement solve left by;
\* exc the exception raised.  For parse_equation, equation holds the argument.
NoOut ==
    [op |-> "none", notation |-> "", equation |-> <<>>, name |-> "",
     text |-> <<>>, label |-> "", exc |-> "none"]

Init ==
    /\ solver = RecurrenceSolver
    /\ relation = NoRelation
    /\ out = NoOut
    /\ first = NoOut

(***************************************************************************)
(* Calls on a relation.                                                    *)
(***************************************************************************)
\* A behaviour of Spec and of SpecClassifier is the life of one relation: it is
\* constructed once and then only called.
NewDividing(a, b, fn, diff_sizes, b_prime) ==
    /\ relation.kind = "none"
    /\ relation' = DividingFunctionRecurrence(a, b, fn, diff_sizes, b_prime)
    /\ out' = NoOut
    /\ first' = NoOut
    /\ UNCHANGED solver

NewDecreasing(a, b, fn) ==
    /\ relation.kind = "none"
    /\ relation' = DecreasingFunctionRecurrence(a, b, fn)
    /\ out' = NoOut
    /\ first' = NoOut
    /\ UNCHANGED solver

\* out after op returned r
Returned(op, notation, r) ==
    [NoOut EXCEPT !.op = op, !.notation = notation,
                  !.text = r.text, !.label = r.label, !.exc = r.exc]

\* out after get_method_name returned r
Named(r) == [NoOut EXCEPT !.op = "get_method_name", !.name = r.label, !.exc = r.exc]

Solve(notation) ==
    /\ relation.kind # "none"
    /\ out' = Returned("solve", notation, solve(relation, notation))
    /\ first' = IF first.op = "none" THEN out' ELSE first
    /\ UNCHANGED <<solver, relation>>

\* get_method_name keeping the exponent it computed in self.log_power
GetMethodName_Caching ==
    /\ relation.kind # "none"
    /\ out' = Named(get_method_name(relation))
    /\ relation' = [relation EXCEPT !.log_power = get_polynomial_exponent(relation)]
    /\ UNCHANGED <<solver, first>>

GetMethodName ==
    /\ relation.kind # "none"
    /\ out' = Named(get_method_name(relation))
    /\ UNCHANGED <<solver, relation, first>>

GetRecurrenceEquation ==
    /\ relation.kind # "none"
    /\ out' = [NoOut EXCEPT !.op = "get_recurrence_equation",
                            !.equation = get_recurrence_equation(relation)]
    /\ UNCHANGED <<solver, relation, first>>

Calls ==
    \/ \E notation \in Notations : Solve(notation)
    \/ GetMethodName
    \/ GetRecurrenceEquation

Next ==
    \/ \E a \in DividingA, b \in DividingB, fn \in Descriptions :
          \/ NewDividing(a, b, fn, FALSE, PyInt(0))
          \/ \E b_prime \in DividingBPrime : NewDividing(a, b, fn, TRUE, b_prime)
    \/ \E a \in DecreasingA, b \in DecreasingB, fn \in Descriptions :
          NewDecreasing(a, b, fn)
    \/ Calls

Spec == Init /\ [][Next]_vars

(***************************************************************************)
(* The classifier alone, on every short description.                       *)
(***************************************************************************)
NextClassifier ==
    \/ \E fn \in ShortStrings \cup Descriptions :
          NewDividing(PyInt(2), PyInt(2), fn, FALSE, PyInt(0))
    \/ \E fn \in ShortStrings \cup Descriptions :
          NewDecreasing(PyInt(1), PyInt(1), fn)

SpecClassifier == Init /\ [][NextClassifier]_vars

(***************************************************************************)
(* The driver: RecurrenceSolver.get_input, create_relation, show_result.   *)
(***************************************************************************)
ParseEquation(equation) ==
    /\ solver' = parse_equation(solver, equation).self
    /\ out' = [NoOut EXCEPT !.op = "parse_equation", !.equation = equation,
                            !.exc = parse_equation(solver, equation).exc]
    /\ UNCHANGED <<relation, first>>

SelectNotation(notation) ==
    /\ solver' = [solver EXCEPT !.notation = notation]
    /\ UNCHANGED <<relation, out, first>>

CreateRelation ==
    /\ relation' = create_relation(solver)
    /\ out' = [NoOut EXCEPT !.op = "create_relation"]
    /\ UNCHANGED <<solver, first>>

\* what show_result prints: the equation, the method name and the solution; an
\* exception of get_method_name ends it before solve is called
Shown(notation, equation, name, r) ==
    IF name.exc # "none"
    THEN [NoOut EXCEPT !.op = "show_result", !.notation = notation,
                       !.equation = equation, !.exc = name.exc]
    ELSE [Returned("show_result", notation, r)
          EXCEPT !.equation = equation, !.name = name.label]

ShowResult ==
    /\ relation.kind # "none"
    /\ out' = Shown(solver.notation, get_recurrence_equation(relation),
                    get_method_name(relation), solve(relation, solver.notation))
    /\ UNCHANGED <<solver, relation, first>>

NextSolver ==
    \/ \E equation \in Equations : ParseEquation(equation)
    \/ \E notation \in Notations : SelectNotation(notation)
    \/ CreateRelation
    \/ ShowResult

SpecSolver == Init /\ [][NextSolver]_vars

(***************************************************************************)
(* Properties.                                                             *)
(***************************************************************************)
MasterTheoremLabels ==
    {"Master Theorem (Case 1)", "Master Theorem (Case 2a)", "Master Theorem (Case 2b)",
     "Master Theorem (Case 2c)", "Master Theorem (Case 3a)", "Master Theorem (Case 3b)"}

\* the relation is a dividing recurrence with equal subproblem sizes
EqualSizes == relation.kind = "dividing" /\ ~relation.diff_sizes

\* b ** k for the relation
BPowerK == Pow(relation.b, get_polynomial_exponent(relation))

\* C1: for a dividing recurrence with diff_sizes false, the name get_method_name
\* returns is the method and case of the return statement solve left by.
C1_NameFollowsSolve ==
    (EqualSizes /\ out.op = "get_method_name" /\ first.op = "solve"
        /\ out.exc = "none" /\ first.exc = "none")
    => out.name = first.label

\* C2: for a dividing recurrence with diff_sizes false solved by the Master
\* Theorem, a within 0.0001 of b^k but not equal to it gives a Case 2 formula.
C2_ToleranceSelectsCase2 ==
    (EqualSizes /\ out.op = "solve" /\ out.label \in MasterTheoremLabels
        /\ AbsDiffLtTol(relation.a, BPowerK) /\ ~REq(relation.a, BPowerK))
    => out.label \in {"Master Theorem (Case 2a)", "Master Theorem (Case 2b)",
                      "Master Theorem (Case 2c)"}

LogN == <<"l", "o", "g", "(", "n", ")">>

\* C3: a decreasing recurrence with a = 1 and f(n) = log(n), solved with notation
\* Theta, returns "Theta(n log n)".
C3_MusterLogarithm ==
    (relation.kind = "decreasing" /\ REq(relation.a, PyInt(1)) /\ relation.fn = LogN
        /\ out.op = "solve" /\ out.notation = "Theta")
    => out.text = <<"Theta", "(", "n", " ", "l", "o", "g", " ", "n", ")">>

\* f(n) is a constant or a polynomial in n alone: it carries no power of a logarithm
NoLogPower ==
    \/ relation.fn_type = 0
    \/ relation.fn_type = 2 /\ ~Contains(relation.fn, <<"l", "o", "g">>)

\* C4: for a dividing recurrence with diff_sizes false, a equal to b^k and an f(n)
\* without a log power, solve leaves by Case 2a with p = 1.0 and returns
\* n^(log_b a) * log^2.00n.
C4_Case2aDefaultPower ==
    (EqualSizes /\ NoLogPower /\ REq(relation.a, BPowerK) /\ out.op = "solve")
    => /\ out.label = "Master Theorem (Case 2a)"
       /\ relation.log_power = PyFloat(1, 1)
       /\ out.text = <<out.notation, "(", "n", "^">>
                     \o Fmt2(LogRatio(relation.a, relation.b).val)
                     \o <<" ", "*", " ", "l", "o", "g", "^", "2", ".", "0", "0", "n", ")">>

\* T(n) = 2T(n/2) + n solved: Theta(n^1.00 * log^2.00n)
C4_Witness ==
    /\ EqualSizes /\ relation.a = PyInt(2) /\ relation.b = PyInt(2)
    /\ relation.fn = <<"n">>
    /\ out.op = "solve"
    /\ out.text = <<"Theta", "(", "n", "^", "1", ".", "0", "0", " ", "*", " ",
                    "l", "o", "g", "^", "2", ".", "0", "0", "n", ")">>

\* fn is matched by none of the first four steps of the classifier: it is no
\* constant literal, holds no "log" and is no polynomial in n
NotMatchedBySteps1To4(fn) ==
    /\ ~IsConstantLiteral(fn)
    /\ ~Contains(fn, <<"l", "o", "g">>)
    /\ ~Contains(fn, <<"n", "^">>)
    /\ ~(Contains(fn, <<"n">>) /\ ~Contains(fn, <<"^">>))

MatchesNoPattern(fn) ==
    /\ NotMatchedBySteps1To4(fn)
    /\ ~Contains(fn, <<"^", "n">>)
    /\ ~Contains(fn, <<"2", "^">>)
    /\ ~Contains(fn, <<"e", "^">>)

\* C5: construction leaves fn_type one of 0, 1, 2, 3, never -1, with log_power and
\* exp_base numbers, and fn_type 0 for a description that matches no pattern.
C5_ShapeAssigned ==
    relation.kind # "none"
    => /\ relation.fn_type \in {0, 1, 2, 3}
       /\ relation.log_power.d > 0 /\ relation.exp_base.d > 0
       /\ MatchesNoPattern(relation.fn) => relation.fn_type = 0

\* a description of the fallback: "xe" matches no pattern and is made Constant
C5_Witness ==
    /\ relation.kind # "none"
    /\ relation.fn = <<"x", "e">>
    /\ MatchesNoPattern(relation.fn)
    /\ relation.fn_type = 0

\* C6: a description not matched by steps 1 to 4 is Exponential iff it holds "^n".
C6_ExponentialIffCaretN ==
    (relation.kind # "none" /\ NotMatchedBySteps1To4(relation.fn))
    => (relation.fn_type = 3 <=> Contains(relation.fn, <<"^", "n">>))

\* the text after its first character
Body(text) == IF text = <<>> THEN <<>> ELSE Tail(text)

\* C7: the strings solve returns for two notations on one relation differ in the
\* leading symbol alone, which is the notation asked for; the return statement
\* solve leaves by is the same.
C7_NotationOnlyLeads ==
    (relation.kind # "none" /\ out.op = "solve" /\ first.op = "solve")
    => /\ Body(out.text) = Body(first.text)
       /\ out.label = first.label
       /\ out.exc = first.exc
       /\ out.exc = "none" => Head(out.text) = out.notation

\* a relation solved with O after it was solved with Theta
C7_Witness ==
    /\ relation.kind = "decreasing" /\ REq(relation.a, PyInt(1))
    /\ first.op = "solve" /\ first.notation = "Theta"
    /\ out.op = "solve" /\ out.notation = "O"
    /\ Head(out.text) = "O" /\ Head(first.text) = "Theta"

\* C8: once a relation is constructed no call changes a field of it, and solve
\* called again with the notation of the first call returns the same string.
C8_CallsLeaveRelation ==
    [][relation.kind # "none"
       => /\ relation' = relation
          /\ (out'.op = "solve" /\ first.op = "solve"
                 /\ out'.notation = first.notation)
             => out'.text = first.text]_vars

\* get_method_name called on a relation that solve was called on before
C8_Witness ==
    /\ relation.kind = "dividing"
    /\ first.op = "solve"
    /\ out.op = "get_method_name"

\* C9: solve on a decreasing recurrence never returns the "Cannot apply Muster
\* Theorem" signal: a < 1 returns f(n) in the notation, a > 1 a Substitution
\* Method formula, and only a == 1 leaves by the Muster Theorem.
C9_NoMusterSignal ==
    (relation.kind = "decreasing" /\ out.op = "solve")
    => /\ out.text # CannotApply
       /\ out.exc = "none"
       /\ RLess(relation.a, PyInt(1))
          => out.text = <<out.notation, "(">> \o relation.fn \o <<")">>
       /\ RLess(PyInt(1), relation.a) => out.label = "Substitution Method"
       /\ REq(relation.a, PyInt(1)) <=> out.label = "Muster Theorem"

\* T(n) = 0.5T(n-1) + n solved: the pass-through "(n)"
C9_Witness ==
    /\ relation.kind = "decreasing" /\ relation.a = PyFloat(1, 2)
    /\ relation.fn = <<"n">>
    /\ out.op = "solve" /\ out.notation = "Theta"
    /\ out.text = <<"Theta", "(", "n", ")">>

\* the fields parse_equation assigns
ParsedFields(self) ==
    <<self.type, self.a, self.b, self.fn, self.diff_sizes, self.b_prime>>

\* the equation is one parse_equation recognises: parsed on a new RecurrenceSolver
\* it raises nothing and assigns f(n)
Recognised(equation) ==
    /\ parse_equation(RecurrenceSolver, equation).exc = "none"
    /\ parse_equation(RecurrenceSolver, equation).self.fn # <<>>

\* C10: after parse_equation of an equation it recognises, type, a, b, fn,
\* diff_sizes and b_prime are what parsing the same equation on a new
\* RecurrenceSolver gives, whatever was parsed before.
C10_ParseAsOnFreshSolver ==
    (out.op = "parse_equation" /\ Recognised(out.equation))
    => ParsedFields(solver)
       = ParsedFields(parse_equation(RecurrenceSolver, out.equation).self)

====
